---- MODULE Spec2Model ----
(***************************************************************************)
(* Detection debounce and auto-capture of VisionCropCamera (hold/grace      *)
(* variant, src/components/VisionCropCamera.tsx lines 1-545).               *)
(*                                                                          *)
(* One action is one task of the JS thread: a detection callback delivered  *)
(* by the frame processor, a button press, a React render followed by its   *)
(* passive effects, a timer callback, or the continuation of the async      *)
(* takeAndCropPhoto after an await.  React state variables hold the latest  *)
(* value passed to their setter; `rendered` is the snapshot the last render *)
(* was made from (what is on screen and what the effect dependencies were). *)
(* Camera permission is granted and a back camera exists.  A detection      *)
(* callback is delivered only while the frame processor is attached in the  *)
(* rendered tree; posting it from the worklet and running it on the JS      *)
(* thread are one step.  No bound is put on the time between a state        *)
(* setter and the render it schedules.                                      *)
(*                                                                          *)
(* Spec, SpecHold, SpecEdge, SpecSkew and SpecUnmount are runs of           *)
(* VisionCropCamera; SpecLatch is a run of its latch variant (lines         *)
(* 547-1004 of the same file).                                              *)
(* SpecScreens is a run of one of the screens whose capture is started by   *)
(* a button only (IDScanner, NewIDScanner, IDScannerRealtime,               *)
(* GeminiCropCamera, CameraOverlayCrop).  SpecCrop is one call of one of    *)
(* the crop computations of these components on arguments drawn from        *)
(* bounded sets.  The variables of the parts a specification does not run   *)
(* keep their initial values.                                               *)
(***************************************************************************)
EXTENDS Integers, Sequences, FiniteSets, TLC

\* ------------------------------------------------------------ constants
HOLD_DURATION_MS == 1000

DETECTION_GRACE_MS == 300

\* ------------------------------------------------------------ bounds
\* Largest value of Date.now() in Spec, where the clock moves in CoarseSteps.
MaxTime == 2000

\* Largest value of Date.now() in SpecHold, where the clock moves in FineSteps.
MaxFineTime == 1300

\* Distinct non-initial camera layouts delivered by onLayout.
NumLayouts == 1

\* Cap on concurrently pending takePhoto/manipulateAsync promises.
MaxInFlight == 2

\* Cap on pending Retake timers.
MaxTimers == 1

\* Largest width and height of a photo, in pixels, next to ExamplePhoto.
MaxPhoto == 3

\* Largest width and height of a camera layout, next to ExamplePreview.
MaxPreview == 3

\* The normalized rectangles have their corners on a grid of 1 / RectDen.
RectDen == 2

\* Largest coordinate of a frame edge, in preview pixels.
MaxFrame == 3

\* How far outside [0, 1] a coordinate of rectPercentage lies, in steps of
\* 1 / RectDen.
MaxOutside == 1

\* In SpecEdge the clock is read at the thresholds and up to MaxSlack
\* milliseconds before them.
MaxSlack == 1

CoarseSteps == {500}

FineSteps == {100, 300, 500}

\* null of `number | null`
Null == 0 - 1

\* null of `string | null`, and the uri of a cropped image
NoImage == "null"

Uri == "file://cropped.png"

Phases == {"scanning", "holding", "ready"}

MsgScanning == "Scanning for ID..."

MsgHold == "Hold steady..."

MsgCapturing == "Capturing..."

MsgDetected == "ID detected! Capturing..."

VARIABLES
    clock,              \* value Date.now() returns
    detectionPhase,     \* useState<DetectionPhase>
    statusMessage,      \* useState
    croppedImage,       \* useState<string | null>
    isCameraActive,     \* useState
    cameraLayout,       \* useState: 0 is the initial {width: 0, height: 0}
    isCapturing,        \* useRef(false)
    holdStartTime,      \* useRef<number | null>
    lastDetectionTime,  \* useRef<number | null>
    rendered,           \* what the last render saw
    nTakePhoto,         \* takeAndCropPhoto calls awaiting camera.takePhoto
    nCrop,              \* takeAndCropPhoto calls awaiting manipulateAsync
    retakeTimers,       \* pending setTimeout callbacks of Retake
    captureOutcome,     \* how the promise of the last settled takeAndCropPhoto ended
    obs,                \* observers of the run (history, not program state)
    mounted,            \* VisionCropCamera is mounted
    screen,             \* the capture handler of the button screen under study
    screenState,        \* React state of that screen
    screenRendered,     \* the state its last render saw (closures, disabled props)
    awaiting,           \* calls of its handler suspended at each await
    arg,                \* arguments of the crop computation under study
    computed,           \* what that computation returned
    latch,              \* state and refs of the latch variant of VisionCropCamera
    latchRendered,      \* what its last render saw
    latchAwaiting,      \* its pending promises and Retake timers
    latchObs            \* observers of its run (history, not program state)

codeVars == <<detectionPhase, statusMessage, croppedImage, isCameraActive,
              cameraLayout, isCapturing, holdStartTime, lastDetectionTime,
              rendered, nTakePhoto, nCrop, retakeTimers, captureOutcome>>

\* the button screens of the other components
screenVars == <<screen, screenState, screenRendered, awaiting>>

\* the crop computations
cropVars == <<arg, computed>>

\* the latch variant of VisionCropCamera (lines 547-1004)
latchVars == <<latch, latchRendered, latchAwaiting, latchObs>>

vars == <<clock, detectionPhase, statusMessage, croppedImage, isCameraActive,
          cameraLayout, isCapturing, holdStartTime, lastDetectionTime,
          rendered, nTakePhoto, nCrop, retakeTimers, captureOutcome,
          obs, mounted, screenVars, cropVars, latchVars>>

\* ------------------------------------------------------------ screens
\* The camera screen is rendered when the last render saw no cropped image
\* (lines 326-355 return the review screen otherwise).
CameraScreen(r) == r.croppedImage = NoImage

\* camera.current: the ref is attached while <Camera> is mounted.
CameraRef(r) == CameraScreen(r)

\* frameProcessor={isCameraActive ? frameProcessor : undefined}
FrameProcessorAttached(r) == CameraScreen(r) /\ r.isCameraActive

Snapshot(disabled) ==
    [detectionPhase |-> detectionPhase, croppedImage |-> croppedImage,
     cameraLayout |-> cameraLayout, isCameraActive |-> isCameraActive,
     statusMessage |-> statusMessage, disabled |-> disabled]

\* React schedules a render when a state setter was called with a new value.
NeedsRender ==
    \/ rendered.detectionPhase # detectionPhase
    \/ rendered.croppedImage # croppedImage
    \/ rendered.cameraLayout # cameraLayout
    \/ rendered.isCameraActive # isCameraActive
    \/ rendered.statusMessage # statusMessage

\* Dependencies of the auto-capture effect; takeAndCropPhoto is re-created
\* when cameraLayout changes (useCallback(..., [cameraLayout])).
DepsChanged ==
    \/ rendered.detectionPhase # detectionPhase
    \/ rendered.croppedImage # croppedImage
    \/ rendered.cameraLayout # cameraLayout

\* ------------------------------------------------------------ debounce
\* the hold compared against the grace constant
HoldElapsedGrace(now, start) == now - start >= DETECTION_GRACE_MS

\* the hold compared with > instead of >=
HoldElapsedStrict(now, start) == now - start > HOLD_DURATION_MS

HoldElapsed(now, start) == now - start >= HOLD_DURATION_MS

\* no grace: every missed frame abandons the hold
GraceElapsedAlways(now, last) == TRUE

GraceElapsed(now, last) == now - last >= DETECTION_GRACE_MS

\* the grace measured from the start of the hold
HoldStartOrZero == IF holdStartTime = Null THEN 0 ELSE holdStartTime

\* lastDetectionTime.current || 0
LastDetectionOrZero == IF lastDetectionTime = Null \/ lastDetectionTime = 0
                       THEN 0 ELSE lastDetectionTime

\* onDetectionSuccess without `lastDetectionTime.current = now`
onDetectionSuccessNoStamp ==
    IF isCapturing
    THEN UNCHANGED <<lastDetectionTime, holdStartTime, detectionPhase, statusMessage>>
    ELSE IF holdStartTime = Null
         THEN /\ lastDetectionTime' = clock
              /\ holdStartTime' = clock
              /\ detectionPhase' = "holding"
              /\ statusMessage' = MsgHold
         ELSE /\ UNCHANGED <<holdStartTime, lastDetectionTime>>
              /\ IF HoldElapsed(clock, holdStartTime)
                 THEN /\ detectionPhase' = "ready"
                      /\ statusMessage' = MsgCapturing
                 ELSE UNCHANGED <<detectionPhase, statusMessage>>

onDetectionSuccess ==
    IF isCapturing
    THEN UNCHANGED <<lastDetectionTime, holdStartTime, detectionPhase, statusMessage>>
    ELSE /\ lastDetectionTime' = clock
         /\ IF holdStartTime = Null
            THEN /\ holdStartTime' = clock
                 /\ detectionPhase' = "holding"
                 /\ statusMessage' = MsgHold
            ELSE /\ UNCHANGED holdStartTime
                 /\ IF HoldElapsed(clock, holdStartTime)
                    THEN /\ detectionPhase' = "ready"
                         /\ statusMessage' = MsgCapturing
                    ELSE UNCHANGED <<detectionPhase, statusMessage>>

\* onDetectionMissed that leaves holdStartTime set when it gives up
onDetectionMissedKeepsStart ==
    IF isCapturing \/ holdStartTime = Null
    THEN UNCHANGED <<lastDetectionTime, holdStartTime, detectionPhase, statusMessage>>
    ELSE IF GraceElapsed(clock, LastDetectionOrZero)
         THEN /\ UNCHANGED holdStartTime
              /\ lastDetectionTime' = Null
              /\ detectionPhase' = "scanning"
              /\ statusMessage' = MsgScanning
         ELSE UNCHANGED <<lastDetectionTime, holdStartTime, detectionPhase, statusMessage>>

onDetectionMissed ==
    IF isCapturing \/ holdStartTime = Null
    THEN UNCHANGED <<lastDetectionTime, holdStartTime, detectionPhase, statusMessage>>
    ELSE IF GraceElapsed(clock, LastDetectionOrZero)
         THEN /\ holdStartTime' = Null
              /\ lastDetectionTime' = Null
              /\ detectionPhase' = "scanning"
              /\ statusMessage' = MsgScanning
         ELSE UNCHANGED <<lastDetectionTime, holdStartTime, detectionPhase, statusMessage>>

\* ------------------------------------------------------------ capture
\* if (!camera.current || isCapturing.current) return;
\* the guard without the in-flight flag
CaptureGuardNoFlag(cameraRef) == cameraRef

CaptureGuard(cameraRef) == cameraRef /\ ~isCapturing

\* takeAndCropPhoto up to its first await: the call of camera.takePhoto.
takeAndCropPhoto(cameraRef) ==
    IF CaptureGuard(cameraRef) /\ nTakePhoto + nCrop < MaxInFlight
    THEN /\ isCapturing' = TRUE
         /\ statusMessage' = MsgCapturing
         /\ nTakePhoto' = nTakePhoto + 1
    ELSE UNCHANGED <<isCapturing, statusMessage, nTakePhoto>>

\* catch (error) { } swallows the error: the promise takeAndCropPhoto
\* returned is fulfilled with undefined whether the capture failed or not.
PromiseAfterCatch(failed) == "fulfilled"

\* finally that forgets lastDetectionTime
finallyKeepsLastDetection ==
    /\ isCapturing' = FALSE
    /\ detectionPhase' = "scanning"
    /\ holdStartTime' = Null
    /\ UNCHANGED lastDetectionTime

\* finally that resets the phase but not the timers
finallyKeepsTimers ==
    /\ isCapturing' = FALSE
    /\ detectionPhase' = "scanning"
    /\ UNCHANGED <<holdStartTime, lastDetectionTime>>

\* finally { ... }
finallyBlock ==
    /\ isCapturing' = FALSE
    /\ detectionPhase' = "scanning"
    /\ holdStartTime' = Null
    /\ lastDetectionTime' = Null

\* if (detectionPhase === 'ready' && !croppedImage && !isCapturing.current)
AutoCaptureCondition ==
    detectionPhase = "ready" /\ croppedImage = NoImage /\ ~isCapturing

\* useEffect(() => {...}, [detectionPhase, croppedImage, takeAndCropPhoto]):
\* runs after a render in which a dependency changed; camera.current is the
\* ref of the tree that render committed.
autoCaptureEffect ==
    IF DepsChanged /\ AutoCaptureCondition
    THEN takeAndCropPhoto(CameraRef(rendered'))
    ELSE UNCHANGED <<isCapturing, statusMessage, nTakePhoto>>

\* disabled={isCapturing.current} is evaluated while rendering, before the
\* effects of that render run.
render ==
    /\ NeedsRender
    /\ rendered' = Snapshot(isCapturing)
    /\ autoCaptureEffect
    /\ UNCHANGED <<detectionPhase, croppedImage, isCameraActive, cameraLayout,
                   holdStartTime, lastDetectionTime, nCrop, retakeTimers,
                   captureOutcome>>

\* onPress={takeAndCropPhoto} disabled={isCapturing.current}: a press on a
\* disabled TouchableOpacity does not call onPress.
manualPress ==
    /\ CameraScreen(rendered)
    /\ IF rendered.disabled
       THEN UNCHANGED <<isCapturing, statusMessage, nTakePhoto>>
       ELSE takeAndCropPhoto(CameraRef(rendered))
    /\ UNCHANGED <<detectionPhase, croppedImage, isCameraActive, cameraLayout,
                   holdStartTime, lastDetectionTime, rendered, nCrop,
                   retakeTimers, captureOutcome>>

\* Retake onPress without the two assignments to the refs
retakePressKeepsTimers ==
    /\ ~CameraScreen(rendered)
    /\ retakeTimers < MaxTimers
    /\ croppedImage' = NoImage
    /\ statusMessage' = MsgScanning
    /\ detectionPhase' = "scanning"
    /\ retakeTimers' = retakeTimers + 1
    /\ UNCHANGED <<isCameraActive, cameraLayout, isCapturing, rendered,
                   nTakePhoto, nCrop, captureOutcome, holdStartTime,
                   lastDetectionTime>>

\* Retake onPress
retakePress ==
    /\ ~CameraScreen(rendered)
    /\ retakeTimers < MaxTimers
    /\ croppedImage' = NoImage
    /\ statusMessage' = MsgScanning
    /\ detectionPhase' = "scanning"
    /\ holdStartTime' = Null
    /\ lastDetectionTime' = Null
    /\ retakeTimers' = retakeTimers + 1
    /\ UNCHANGED <<isCameraActive, cameraLayout, isCapturing, rendered,
                   nTakePhoto, nCrop, captureOutcome>>

\* setTimeout(() => setIsCameraActive(true), 100)
retakeTimerFires ==
    /\ retakeTimers > 0
    /\ retakeTimers' = retakeTimers - 1
    /\ isCameraActive' = TRUE
    /\ UNCHANGED <<detectionPhase, statusMessage, croppedImage, cameraLayout,
                   isCapturing, holdStartTime, lastDetectionTime, rendered,
                   nTakePhoto, nCrop, captureOutcome>>

\* onCameraLayout: setCameraLayout({ width, height }) with a new object
onCameraLayout(l) ==
    /\ CameraScreen(rendered)
    /\ l # cameraLayout
    /\ cameraLayout' = l
    /\ UNCHANGED <<detectionPhase, statusMessage, croppedImage, isCameraActive,
                   isCapturing, holdStartTime, lastDetectionTime, rendered,
                   nTakePhoto, nCrop, retakeTimers, captureOutcome>>

\* await camera.current.takePhoto(...) resolves: the crop is computed and
\* manipulateAsync is called.
takePhotoResolves ==
    /\ nTakePhoto > 0
    /\ nTakePhoto' = nTakePhoto - 1
    /\ nCrop' = nCrop + 1
    /\ UNCHANGED <<detectionPhase, statusMessage, croppedImage, isCameraActive,
                   cameraLayout, isCapturing, holdStartTime, lastDetectionTime,
                   rendered, retakeTimers, captureOutcome>>

\* takePhoto rejects: catch, then finally
takePhotoRejects ==
    /\ nTakePhoto > 0
    /\ nTakePhoto' = nTakePhoto - 1
    /\ finallyBlock
    /\ captureOutcome' = PromiseAfterCatch(TRUE)
    /\ UNCHANGED <<statusMessage, croppedImage, isCameraActive, cameraLayout,
                   rendered, nCrop, retakeTimers>>

\* manipulateAsync resolves: lines 188-189, then finally
cropResolves ==
    /\ nCrop > 0
    /\ nCrop' = nCrop - 1
    /\ isCameraActive' = FALSE
    /\ croppedImage' = Uri
    /\ finallyBlock
    /\ captureOutcome' = PromiseAfterCatch(FALSE)
    /\ UNCHANGED <<statusMessage, cameraLayout, rendered, nTakePhoto,
                   retakeTimers>>

\* manipulateAsync rejects: catch, then finally
cropRejects ==
    /\ nCrop > 0
    /\ nCrop' = nCrop - 1
    /\ finallyBlock
    /\ captureOutcome' = PromiseAfterCatch(TRUE)
    /\ UNCHANGED <<statusMessage, croppedImage, isCameraActive, cameraLayout,
                   rendered, nTakePhoto, retakeTimers>>

\* the frame processor found the ID in a frame: runOnDetectionSuccess()
detectionSuccess ==
    /\ FrameProcessorAttached(rendered)
    /\ onDetectionSuccess
    /\ UNCHANGED <<croppedImage, isCameraActive, cameraLayout, isCapturing,
                   rendered, nTakePhoto, nCrop, retakeTimers, captureOutcome>>

\* the frame processor found no ID in a frame: runOnDetectionMissed()
detectionMissed ==
    /\ FrameProcessorAttached(rendered)
    /\ onDetectionMissed
    /\ UNCHANGED <<croppedImage, isCameraActive, cameraLayout, isCapturing,
                   rendered, nTakePhoto, nCrop, retakeTimers, captureOutcome>>

\* ------------------------------------------------------------ button screens
\* The screens whose capture is started by a button only.  One of them is
\* mounted in a run; `screen` names its capture handler.  The camera
\* permission is granted, the camera is initialized and the effect of
\* CameraOverlayCrop that activates the camera has run.  The awaits after the
\* first one (rotate, getSize, crop, OCR, save) are one stage, `crop`.
GuardedHandlers ==
    {"IDScanner.capturePhotoManually", "IDScanner.launchNativeScanner",
     "NewIDScanner.capturePhoto", "IDScannerRealtime.capturePhoto"}

UnguardedHandlers ==
    {"GeminiCropCamera.takeAndCropPhoto", "CameraOverlayCrop.grabImage"}

Handlers == GuardedHandlers \cup UnguardedHandlers

\* no button screen is mounted
NoScreen == "none"

\* the handlers that put the cropped image into state, which replaces the
\* camera screen with the review screen
ReviewHandlers ==
    {"NewIDScanner.capturePhoto", "GeminiCropCamera.takeAndCropPhoto",
     "CameraOverlayCrop.grabImage"}

\* if (capturedPhoto) / if (croppedImage) / if (reviewImage) return <review>
ShowsCamera(r) == r.image = NoImage

\* disabled={isCapturing}; the buttons of GeminiCropCamera and
\* CameraOverlayCrop have no disabled prop
ButtonDisabled(r) == screen \in GuardedHandlers /\ r.isCapturing

\* The early return of the handler.  The handler is the closure the last
\* render created, so the state it reads is the state that render saw;
\* cameraRef.current is set while the camera screen is shown.
\*   if (!cameraRef.current || isCapturing) return;   (if (isCapturing) return;)
\*   if (!cameraRef.current) return;
\*   if (!isCameraInitialized || !isCameraActive || !cameraRef.current) return;
HandlerGuard(r) ==
    CASE screen \in GuardedHandlers -> ~r.isCapturing
      [] screen = "GeminiCropCamera.takeAndCropPhoto" -> TRUE
      [] screen = "CameraOverlayCrop.grabImage" -> r.isCameraActive
      [] OTHER -> FALSE

ScreenInFlight == awaiting.photo + awaiting.crop

\* finally { setIsCapturing(false); } of the guarded handlers
setIsCapturingFalse(st) ==
    IF screen \in GuardedHandlers THEN [st EXCEPT !.isCapturing = FALSE] ELSE st

\* onPress of the capture button, up to the first await of the handler
capturePress ==
    /\ screen \in Handlers
    /\ ShowsCamera(screenRendered)
    /\ ~ButtonDisabled(screenRendered)
    /\ ScreenInFlight < MaxInFlight
    /\ IF HandlerGuard(screenRendered)
       THEN /\ awaiting' = [awaiting EXCEPT !.photo = @ + 1]
            /\ screenState' =
                 IF screen \in GuardedHandlers
                 THEN [screenState EXCEPT !.isCapturing = TRUE]
                 ELSE screenState
       ELSE UNCHANGED <<awaiting, screenState>>
    /\ UNCHANGED <<screen, screenRendered>>

\* takePhoto / takePictureAsync / scanDocument resolves
photoResolves ==
    /\ awaiting.photo > 0
    /\ awaiting' = [photo |-> awaiting.photo - 1, crop |-> awaiting.crop + 1]
    /\ UNCHANGED <<screen, screenState, screenRendered>>

\* the first await rejects: catch (where there is one), then finally
photoRejects ==
    /\ awaiting.photo > 0
    /\ awaiting' = [awaiting EXCEPT !.photo = @ - 1]
    /\ screenState' = setIsCapturingFalse(screenState)
    /\ UNCHANGED <<screen, screenRendered>>

\* the crop resolves: the image is put into state, then finally
cropSucceeds ==
    /\ awaiting.crop > 0
    /\ awaiting' = [awaiting EXCEPT !.crop = @ - 1]
    /\ screenState' =
         LET st == setIsCapturingFalse(screenState)
         IN IF screen \in ReviewHandlers
            THEN [st EXCEPT !.image = Uri,
                            !.isCameraActive =
                                IF screen = "CameraOverlayCrop.grabImage"
                                THEN FALSE ELSE @]
            ELSE st
    /\ UNCHANGED <<screen, screenRendered>>

\* the crop rejects: catch (where there is one), then finally
cropFails ==
    /\ awaiting.crop > 0
    /\ awaiting' = [awaiting EXCEPT !.crop = @ - 1]
    /\ screenState' = setIsCapturingFalse(screenState)
    /\ UNCHANGED <<screen, screenRendered>>

\* React renders the screen from its state
screenRender ==
    /\ screenRendered # screenState
    /\ screenRendered' = screenState
    /\ UNCHANGED <<screen, screenState, awaiting>>

\* captureAgain / onPress of Retake Photo / retake
captureAgain ==
    /\ screen \in ReviewHandlers
    /\ ~ShowsCamera(screenRendered)
    /\ screenState' =
         [screenState EXCEPT !.image = NoImage,
                             !.isCameraActive =
                                 IF screen = "CameraOverlayCrop.grabImage"
                                 THEN TRUE ELSE @]
    /\ UNCHANGED <<screen, screenRendered, awaiting>>

ScreenInit(h) ==
    /\ screen = h
    /\ screenState = [isCapturing |-> FALSE, isCameraActive |-> TRUE,
                      image |-> NoImage]
    /\ screenRendered = [isCapturing |-> FALSE, isCameraActive |-> TRUE,
                         image |-> NoImage]
    /\ awaiting = [photo |-> 0, crop |-> 0]

\* ------------------------------------------------------------ latch variant
\* The second VisionCropCamera of the file (lines 547-1004): one positive
\* detection sets the latch detectionTriggered and the state textDetected,
\* and the auto-capture effect captures when textDetected is rendered.
\* `latch` holds its React state and its refs, `latchRendered` what the last
\* render saw, `latchAwaiting` the calls suspended at each await and the
\* pending Retake timers.
LatchSnapshot(st, disabled) ==
    [textDetected |-> st.textDetected, croppedImage |-> st.croppedImage,
     cameraLayout |-> st.cameraLayout, isCameraActive |-> st.isCameraActive,
     statusMessage |-> st.statusMessage, disabled |-> disabled]

\* React schedules a render when a state setter was called with a new value.
LatchNeedsRender ==
    LatchSnapshot(latch, latchRendered.disabled) # latchRendered

\* [textDetected, croppedImage, takeAndCropPhoto]; takeAndCropPhoto is
\* re-created when cameraLayout changes
LatchDepsChanged ==
    \/ latchRendered.textDetected # latch.textDetected
    \/ latchRendered.croppedImage # latch.croppedImage
    \/ latchRendered.cameraLayout # latch.cameraLayout

LatchInFlight == latchAwaiting.photo + latchAwaiting.crop

\* onTextDetected, lines 715-720
onTextDetected(st) ==
    IF st.detectionTriggered \/ st.isCapturing
    THEN st
    ELSE [st EXCEPT !.detectionTriggered = TRUE, !.textDetected = TRUE,
                    !.statusMessage = MsgDetected]

\* takeAndCropPhoto of the latch variant up to its first await
\*   if (!camera.current || isCapturing.current) return;
takeAndCropPhotoLatch(cameraRef) ==
    IF cameraRef /\ ~latch.isCapturing /\ LatchInFlight < MaxInFlight
    THEN /\ latch' = [latch EXCEPT !.isCapturing = TRUE,
                                   !.statusMessage = MsgCapturing]
         /\ latchAwaiting' = [latchAwaiting EXCEPT !.photo = @ + 1]
    ELSE UNCHANGED <<latch, latchAwaiting>>

\* finally without `detectionTriggered.current = false`
finallyLatchKeepsLatch(st) ==
    [st EXCEPT !.isCapturing = FALSE, !.textDetected = FALSE]

\* finally { ... }, lines 706-711
finallyLatch(st) ==
    [st EXCEPT !.isCapturing = FALSE, !.textDetected = FALSE,
               !.detectionTriggered = FALSE]

\* if (textDetected && !croppedImage && !isCapturing.current)
LatchAutoCaptureCondition ==
    latch.textDetected /\ latch.croppedImage = NoImage /\ ~latch.isCapturing

\* a render and its passive effects; camera.current is the ref of the tree
\* this render committed
renderLatch ==
    /\ LatchNeedsRender
    /\ latchRendered' = LatchSnapshot(latch, latch.isCapturing)
    /\ IF LatchDepsChanged /\ LatchAutoCaptureCondition
       THEN takeAndCropPhotoLatch(latch.croppedImage = NoImage)
       ELSE UNCHANGED <<latch, latchAwaiting>>

\* the frame processor found the three patterns: runOnTextDetected()
textDetectedEvent ==
    /\ latchRendered.croppedImage = NoImage
    /\ latchRendered.isCameraActive
    /\ latch' = onTextDetected(latch)
    /\ UNCHANGED <<latchRendered, latchAwaiting>>

\* onPress={takeAndCropPhoto} disabled={isCapturing.current}
manualPressLatch ==
    /\ latchRendered.croppedImage = NoImage
    /\ IF latchRendered.disabled
       THEN UNCHANGED <<latch, latchAwaiting>>
       ELSE takeAndCropPhotoLatch(TRUE)
    /\ UNCHANGED latchRendered

\* Retake onPress, lines 809-818
retakePressLatch ==
    /\ latchRendered.croppedImage # NoImage
    /\ latchAwaiting.timers < MaxTimers
    /\ latch' = [latch EXCEPT !.croppedImage = NoImage,
                              !.statusMessage = MsgScanning,
                              !.textDetected = FALSE,
                              !.detectionTriggered = FALSE]
    /\ latchAwaiting' = [latchAwaiting EXCEPT !.timers = @ + 1]
    /\ UNCHANGED latchRendered

\* setTimeout(() => setIsCameraActive(true), 100)
retakeTimerFiresLatch ==
    /\ latchAwaiting.timers > 0
    /\ latchAwaiting' = [latchAwaiting EXCEPT !.timers = @ - 1]
    /\ latch' = [latch EXCEPT !.isCameraActive = TRUE]
    /\ UNCHANGED latchRendered

\* onCameraLayout
onCameraLayoutLatch(l) ==
    /\ latchRendered.croppedImage = NoImage
    /\ l # latch.cameraLayout
    /\ latch' = [latch EXCEPT !.cameraLayout = l]
    /\ UNCHANGED <<latchRendered, latchAwaiting>>

\* await camera.current.takePhoto(...) resolves: manipulateAsync is called
takePhotoResolvesLatch ==
    /\ latchAwaiting.photo > 0
    /\ latchAwaiting' = [latchAwaiting EXCEPT !.photo = @ - 1, !.crop = @ + 1]
    /\ UNCHANGED <<latch, latchRendered>>

\* takePhoto rejects: catch, then finally
takePhotoRejectsLatch ==
    /\ latchAwaiting.photo > 0
    /\ latchAwaiting' = [latchAwaiting EXCEPT !.photo = @ - 1]
    /\ latch' = finallyLatch(latch)
    /\ UNCHANGED latchRendered

\* manipulateAsync resolves: lines 702-703, then finally
cropResolvesLatch ==
    /\ latchAwaiting.crop > 0
    /\ latchAwaiting' = [latchAwaiting EXCEPT !.crop = @ - 1]
    /\ latch' = finallyLatch([latch EXCEPT !.isCameraActive = FALSE,
                                           !.croppedImage = Uri])
    /\ UNCHANGED latchRendered

\* manipulateAsync rejects: catch, then finally
cropRejectsLatch ==
    /\ latchAwaiting.crop > 0
    /\ latchAwaiting' = [latchAwaiting EXCEPT !.crop = @ - 1]
    /\ latch' = finallyLatch(latch)
    /\ UNCHANGED latchRendered

\* latchObs' after a step of the latch variant, read off the step itself.
\*   auto      automatic takePhoto invocations since the latch was last set
\*   ignored   the last task was a positive detection that found the latch set
ObserveLatch(kind) ==
    LET set     == ~latch.detectionTriggered /\ latch'.detectionTriggered
        invoked == latchAwaiting'.photo > latchAwaiting.photo
    IN latchObs' =
        [auto |-> IF set THEN 0
                  ELSE IF kind = "render" /\ invoked /\ latchObs.auto < 2
                       THEN latchObs.auto + 1 ELSE latchObs.auto,
         ignored |-> kind = "detected" /\ latch.detectionTriggered]

LatchInit ==
    /\ latch = [textDetected |-> FALSE, croppedImage |-> NoImage,
                cameraLayout |-> 0, isCameraActive |-> TRUE,
                statusMessage |-> MsgScanning, isCapturing |-> FALSE,
                detectionTriggered |-> FALSE]
    /\ latchRendered = [textDetected |-> FALSE, croppedImage |-> NoImage,
                        cameraLayout |-> 0, isCameraActive |-> TRUE,
                        statusMessage |-> MsgScanning, disabled |-> FALSE]
    /\ latchAwaiting = [photo |-> 0, crop |-> 0, timers |-> 0]
    /\ latchObs = [auto |-> 0, ignored |-> FALSE]

\* ------------------------------------------------------------ crop
\* The crop computations, on exact rationals: a JS number is kept as an
\* integer numerator over a positive integer denominator that the operators
\* name in their comments.  The rounding error of IEEE doubles is not
\* modelled.
Modes == {"cover", "contain"}

Platforms == {"ios", "android"}

Orientations ==
    {"portrait", "portrait-upside-down", "landscape-left", "landscape-right"}

Max(a, b) == IF a >= b THEN a ELSE b

Min(a, b) == IF a <= b THEN a ELSE b

\* Math.round(n / d) for d > 0: the integer nearest to n/d, halves go up
Round(n, d) == (2 * n + d) \div (2 * d)

\* a || b on numbers
OrElse(a, b) == IF a = 0 THEN b ELSE a

\* ---- CameraOverlayCrop.grabImage and NewIDScanner.capturePhoto
\* Math.max and Math.min exchanged between the two resize modes
ScaleIsWidthRatioSwapped(mode, previewW, previewH, photoW, photoH) ==
    IF mode = "cover"
    THEN previewW * photoH <= previewH * photoW
    ELSE previewW * photoH >= previewH * photoW

\* Math.max / Math.min of previewW / photo.width and previewH / photo.height
\* returns the width ratio (NewIDScanner has Math.min only)
ScaleIsWidthRatio(mode, previewW, previewH, photoW, photoH) ==
    IF mode = "cover"
    THEN previewW * photoH >= previewH * photoW
    ELSE previewW * photoH <= previewH * photoW

\* scale = ScaleNum / ScaleDen
ScaleNum(mode, previewW, previewH, photoW, photoH) ==
    IF ScaleIsWidthRatio(mode, previewW, previewH, photoW, photoH)
    THEN previewW ELSE previewH

ScaleDen(mode, previewW, previewH, photoW, photoH) ==
    IF ScaleIsWidthRatio(mode, previewW, previewH, photoW, photoH)
    THEN photoW ELSE photoH

\* the visible size taken for the photo size, the scale forgotten
VisibleUnscaled(photoDim, sn, sd) == photoDim * sd

\* visibleW = photo.width * scale, as a numerator over sd
Visible(photoDim, sn, sd) == photoDim * sn

\* offsetX = (previewW - visibleW) / 2, as a numerator over 2 * sd
Offset(previewDim, photoDim, sn, sd) ==
    previewDim * sd - Visible(photoDim, sn, sd)

\* rawX = (left - offsetX) / scale for the left edge ln / ld in preview
\* pixels, as a numerator over RawOriginDen
RawOriginNum(ln, ld, off, sn, sd) == 2 * sd * ln - ld * off

RawOriginDen(ld, sn) == 2 * ld * sn

\* the extent left in preview pixels, the division by the scale forgotten
RawExtentUnscaled(wn, sn, sd) == wn * sn

\* rawW = extent / scale for the extent wn / wd in preview pixels, as a
\* numerator over RawExtentDen
RawExtentNum(wn, sn, sd) == wn * sd

RawExtentDen(wd, sn) == wd * sn

\* Math.max(0, Math.min(Math.round(rawX), photo.width - 1))
ClampOrigin(n, d, photoDim) == Max(0, Min(Round(n, d), photoDim - 1))

\* Math.min(Math.round(rawW), photo.width - originX)
ClampExtent(n, d, photoDim, origin) == Min(Round(n, d), photoDim - origin)

\* The crop of a rectangle whose edges left, top and extents w, h are given
\* in preview pixels as numerators over ld: lines 90-107 of
\* CameraOverlayCrop, 71-87 of NewIDScanner.  A preview length is divided by
\* scale, so it is multiplied by factorNum / factorDen = 1 / scale.
MappedCrop(fn, mode, photoW, photoH, previewW, previewH, left, top, w, h, ld) ==
    LET sn   == ScaleNum(mode, previewW, previewH, photoW, photoH)
        sd   == ScaleDen(mode, previewW, previewH, photoW, photoH)
        offX == Offset(previewW, photoW, sn, sd)
        offY == Offset(previewH, photoH, sn, sd)
        originX == ClampOrigin(RawOriginNum(left, ld, offX, sn, sd),
                               RawOriginDen(ld, sn), photoW)
        originY == ClampOrigin(RawOriginNum(top, ld, offY, sn, sd),
                               RawOriginDen(ld, sn), photoH)
    IN [fn |-> fn, finite |-> TRUE, den |-> 1,
        factorNum |-> sd, factorDen |-> sn,
        offsetX |-> offX, offsetY |-> offY,
        originX |-> originX, originY |-> originY,
        width  |-> ClampExtent(RawExtentNum(w, sn, sd), RawExtentDen(ld, sn),
                               photoW, originX),
        height |-> ClampExtent(RawExtentNum(h, sn, sd), RawExtentDen(ld, sn),
                               photoH, originY)]

\* ---- CameraOverlayCrop: the rectangle used for the overlay and the crop
\* Math.min(v, 1) alone: nothing keeps the coordinate from being negative
ClampBelowOne(v) == Min(v, RectDen)

\* Math.max(0, Math.min(v, 1)) on a coordinate v / RectDen
ClampToUnit(v) == Max(0, Min(v, RectDen))

\* const rect = useMemo(() => {...}, [rectPercentage]) on
\* rectPercentage = {x1: a.x1 / RectDen, ...}
rect(a) ==
    LET x1 == ClampToUnit(a.x1)
        y1 == ClampToUnit(a.y1)
        x2 == ClampToUnit(a.x2)
        y2 == ClampToUnit(a.y2)
    IN [fn |-> "rect",
        x1 |-> Min(x1, x2), y1 |-> Min(y1, y2),
        x2 |-> Max(x1, x2), y2 |-> Max(y1, y2)]

\* const OVERLAY_SIZE = 300;
OVERLAY_SIZE == 300

\* rect.x1 = a.x1 / RectDen and so on; previewW = cameraLayout.width ||
\* photo.width
grabImage(a) ==
    LET previewW == OrElse(a.previewW, a.photoW)
        previewH == OrElse(a.previewH, a.photoH)
    IN MappedCrop("grabImage", a.mode, a.photoW, a.photoH, previewW, previewH,
                  a.x1 * previewW, a.y1 * previewH,
                  (a.x2 - a.x1) * previewW, (a.y2 - a.y1) * previewH, RectDen)

\* frameX = (previewW - OVERLAY_SIZE) / 2, rawCropW = OVERLAY_SIZE / scale,
\* scale = Math.min(...): the edges are numerators over 2
capturePhotoCrop(a) ==
    LET previewW == OrElse(a.previewW, a.photoW)
        previewH == OrElse(a.previewH, a.photoH)
    IN MappedCrop("capturePhoto", "contain", a.photoW, a.photoH,
                  previewW, previewH,
                  previewW - OVERLAY_SIZE, previewH - OVERLAY_SIZE,
                  2 * OVERLAY_SIZE, 2 * OVERLAY_SIZE, 2)

\* ---- calculateCropRegion and the inline crop of takeAndCropPhoto
\* if (photoAspect > previewAspect); with a preview of 0 x 0 previewAspect
\* is NaN and the comparison is false
PhotoIsWider(photoW, photoH, previewW, previewH) ==
    photoW * previewH > previewW * photoH

\* scaleX = scaleY = CropScaleNum / CropScaleDen
CropScaleNum(photoW, photoH, previewW, previewH) ==
    IF PhotoIsWider(photoW, photoH, previewW, previewH) THEN photoH ELSE photoW

CropScaleDen(photoW, photoH, previewW, previewH) ==
    IF PhotoIsWider(photoW, photoH, previewW, previewH)
    THEN previewH ELSE previewW

\* offsetX and offsetY as numerators over 2 * CropScaleDen
CropOffsetX(photoW, photoH, previewW, previewH) ==
    IF PhotoIsWider(photoW, photoH, previewW, previewH)
    THEN photoW * previewH - previewW * photoH
    ELSE 0

CropOffsetY(photoW, photoH, previewW, previewH) ==
    IF PhotoIsWider(photoW, photoH, previewW, previewH)
    THEN 0
    ELSE photoH * previewW - previewH * photoW

\* One axis of the crop returned by calculateCropRegion, as numerators over
\* den: cropX = offset + frameX * scale, cropWidth = frameWidth * scale,
\*   originX: Math.max(0, Math.round(cropX)),
\*   width: Math.min(photoWidth - cropX, Math.round(cropWidth))
RegionOrigin(off, frame, sn, den) ==
    den * Max(0, Round(off + 2 * frame * sn, den))

RegionExtent(off, frame, extent, sn, den, photoDim) ==
    Min(den * photoDim - (off + 2 * frame * sn),
        den * Round(2 * extent * sn, den))

calculateCropRegion(a) ==
    LET sn  == CropScaleNum(a.photoW, a.photoH, a.previewW, a.previewH)
        den == 2 * CropScaleDen(a.photoW, a.photoH, a.previewW, a.previewH)
        offX == CropOffsetX(a.photoW, a.photoH, a.previewW, a.previewH)
        offY == CropOffsetY(a.photoW, a.photoH, a.previewW, a.previewH)
    IN [fn |-> "calculateCropRegion", finite |-> TRUE, den |-> den,
        factorNum |-> sn,
        factorDen |-> CropScaleDen(a.photoW, a.photoH, a.previewW, a.previewH),
        offsetX |-> offX, offsetY |-> offY,
        originX |-> RegionOrigin(offX, a.x1, sn, den),
        originY |-> RegionOrigin(offY, a.y1, sn, den),
        width  |-> RegionExtent(offX, a.x1, a.x2 - a.x1, sn, den, a.photoW),
        height |-> RegionExtent(offY, a.y1, a.y2 - a.y1, sn, den, a.photoH)]

\* One axis of the inline crop of VisionCropCamera and GeminiCropCamera:
\*   cropX = Math.max(0, FRAME_X * scaleX + offsetX)
\*   cropWidth = Math.min(FRAME_WIDTH * scaleX, imageWidth - cropX)
\* as numerators over den, then Math.round of each
InlineOrigin(off, frame, sn, den) ==
    Round(Max(0, 2 * frame * sn + off), den)

InlineExtent(off, frame, extent, sn, den, imageDim) ==
    Round(Min(2 * extent * sn,
              den * imageDim - Max(0, 2 * frame * sn + off)), den)

\* With a camera layout of 0 x 0 the scale is imageWidth / 0 = Infinity and
\* the fields of the crop are Infinity, -Infinity or NaN.
takeAndCropPhotoCrop(a) ==
    LET sn  == CropScaleNum(a.photoW, a.photoH, a.previewW, a.previewH)
        den == 2 * CropScaleDen(a.photoW, a.photoH, a.previewW, a.previewH)
        offX == CropOffsetX(a.photoW, a.photoH, a.previewW, a.previewH)
        offY == CropOffsetY(a.photoW, a.photoH, a.previewW, a.previewH)
    IN IF den = 0
       THEN [fn |-> "takeAndCropPhoto", finite |-> FALSE]
       ELSE [fn |-> "takeAndCropPhoto", finite |-> TRUE, den |-> 1,
             offsetX |-> offX, offsetY |-> offY,
             originX |-> InlineOrigin(offX, a.x1, sn, den),
             originY |-> InlineOrigin(offY, a.y1, sn, den),
             width  |-> InlineExtent(offX, a.x1, a.x2 - a.x1, sn, den, a.photoW),
             height |-> InlineExtent(offY, a.y1, a.y2 - a.y1, sn, den, a.photoH)]

\* ---- effective photo dimensions of VisionCropCamera.takeAndCropPhoto
Landscape(orientation) == orientation \in {"landscape-left", "landscape-right"}

\* lines 128-148: iOS swaps by photo.orientation, Android by the shape of
\* the photo and of the camera layout
NeedsSwap(a) ==
    IF a.platform = "ios"
    THEN Landscape(a.orientation)
    ELSE a.photoW > a.photoH /\ a.previewH > a.previewW

effectiveDimensions(a) ==
    [fn |-> "effectiveDimensions",
     imageWidth  |-> IF NeedsSwap(a) THEN a.photoH ELSE a.photoW,
     imageHeight |-> IF NeedsSwap(a) THEN a.photoW ELSE a.photoH]

\* lines 660-664, the variant without a platform branch
effectiveDimensionsLatch(a) ==
    [fn |-> "effectiveDimensionsLatch",
     imageWidth  |-> IF Landscape(a.orientation) THEN a.photoH ELSE a.photoW,
     imageHeight |-> IF Landscape(a.orientation) THEN a.photoW ELSE a.photoH]

\* ---- the arguments under study
\* the example of the specification: a 1600x1200 photo in a 400x300 preview
ExamplePhoto == <<1600, 1200>>

ExamplePreview == <<400, 300>>

PhotoSizes == ((1..MaxPhoto) \X (1..MaxPhoto)) \cup {ExamplePhoto}

\* camera layouts as onLayout reports them; 0 is the unmeasured initial value
LayoutSizes == ((0..MaxPreview) \X (0..MaxPreview)) \cup {ExamplePreview}

\* IDScanner keeps the window size until a layout with non-zero width and
\* height arrives (handlePreviewLayout)
MeasuredSizes == {l \in LayoutSizes : l[1] > 0 /\ l[2] > 0}

\* <<start, end>> of an interval on one axis, in steps of one unit
Spans(n) == {s \in (0..n) \X (0..n) : s[1] <= s[2]}

\* the two corners of rectPercentage on one axis, in any order, inside and
\* outside [0, 1]
Corners ==
    ((0 - MaxOutside)..(RectDen + MaxOutside))
        \X ((0 - MaxOutside)..(RectDen + MaxOutside))

NotUsed == "-"

\* x1, y1, x2, y2 are the normalized rectangle in units of 1 / RectDen for
\* grabImage, and the frame edges in preview pixels (frameX = x1,
\* frameWidth = x2 - x1) for calculateCropRegion and takeAndCropPhoto.
DrawArg(fn, layouts, spans, modes, platforms, orientations) ==
    \E p \in PhotoSizes, l \in layouts, sx \in spans, sy \in spans,
       m \in modes, pf \in platforms, o \in orientations :
        arg = [fn |-> fn, photoW |-> p[1], photoH |-> p[2],
               previewW |-> l[1], previewH |-> l[2],
               x1 |-> sx[1], x2 |-> sx[2], y1 |-> sy[1], y2 |-> sy[2],
               mode |-> m, platform |-> pf, orientation |-> o]

DrawCropArg ==
    \/ DrawArg("grabImage", LayoutSizes, Spans(RectDen), Modes,
               {NotUsed}, {NotUsed})
    \/ DrawArg("capturePhoto", LayoutSizes, {<<0, 0>>}, {"contain"},
               {NotUsed}, {NotUsed})
    \/ DrawArg("calculateCropRegion", MeasuredSizes, Spans(MaxFrame), {"cover"},
               {NotUsed}, {NotUsed})
    \/ DrawArg("takeAndCropPhoto", LayoutSizes, Spans(MaxFrame), {"cover"},
               {NotUsed}, {NotUsed})
    \/ DrawArg("effectiveDimensions", LayoutSizes, {<<0, 0>>}, {"cover"},
               Platforms, Orientations)
    \/ DrawArg("effectiveDimensionsLatch", LayoutSizes, {<<0, 0>>}, {"cover"},
               {"ios"}, Orientations)
    \/ DrawArg("rect", {<<0, 0>>}, Corners, {"cover"}, {NotUsed}, {NotUsed})

\* no crop computation is under study
NoArg == [fn |-> "none"]

NoCrop == [fn |-> "none"]

CropIdle == arg = NoArg /\ computed = NoCrop

\* the computation named by arg.fn runs on arg
apply(fn, value) ==
    /\ arg.fn = fn
    /\ computed = NoCrop
    /\ computed' = value
    /\ UNCHANGED arg

\* ------------------------------------------------------------ observers
\* captures whose promise has not settled
InFlight == nTakePhoto + nCrop

\* The example of the specification: events as <<matched, timestamp>>.
Example5 == << <<TRUE, 0>>, <<TRUE, 500>>, <<FALSE, 600>>, <<TRUE, 700>>,
               <<TRUE, 1200>> >>

ExOff == 0 - 1

SettleKinds == {"settleOk", "takePhotoFailed", "cropFailed"}

FailKinds == {"takePhotoFailed", "cropFailed"}

\* The state transition table of the debounce state machine, rows Scanning
\* and Holding, with the phases under the names the component gives them.
\* lastTrue is the timestamp of the last matched event, so the event that
\* starts a hold records it too.  Ready is left by reset() only.
TableReset == [phase |-> "scanning", holdStart |-> Null, lastTrue |-> Null]

\* the table is not followed: a capture is in flight, or Ready was entered
\* before this event
TableOff == [phase |-> "off", holdStart |-> Null, lastTrue |-> Null]

TableStep(t, matched, now) ==
    CASE t.phase = "scanning" /\ matched ->
            [phase |-> "holding", holdStart |-> now, lastTrue |-> now]
      [] t.phase = "holding" /\ matched ->
            IF now - t.holdStart >= HOLD_DURATION_MS
            THEN [t EXCEPT !.phase = "ready"]
            ELSE [t EXCEPT !.lastTrue = now]
      [] t.phase = "holding" /\ ~matched ->
            IF now - t.lastTrue < DETECTION_GRACE_MS THEN t ELSE TableReset
      [] t.phase = "ready" -> TableOff
      [] OTHER -> t

\* obs' after a step of the given kind, read off the step itself.
\*   episodeFirst  timestamp of the first processed success since the hold
\*                 was last abandoned or reset
\*   graceUsed     a missed event was tolerated in the current hold
\*   restarted     a hold was abandoned since the last reset
\*   ex5           how many events of Example5 the run has matched so far
\*   episode       captures invoked since the phase entered 'ready'
\*   lastSettle    how the last capture settled (until the next one starts)
\*   deadTap       the last task was a manual tap that came while no capture
\*                 was in flight and started none
\*   table         the transition table run on the detection events delivered
\*                 since the last reset, while no capture is in flight
Observe(kind) ==
    LET processed == kind \in {"success", "missed"} /\ ~isCapturing
        reset     == kind \in SettleKinds \cup {"retake"}
        abandoned == /\ kind = "missed"
                     /\ detectionPhase # "scanning"
                     /\ detectionPhase' = "scanning"
        invoked   == nTakePhoto' > nTakePhoto
        entered   == detectionPhase # "ready" /\ detectionPhase' = "ready"
        matches   == /\ kind \in {"success", "missed"}
                     /\ obs.ex5 \in 0..(Len(Example5) - 1)
                     /\ Example5[obs.ex5 + 1] = <<kind = "success", clock>>
    IN obs' =
        [episodeFirst |->
            IF reset \/ abandoned THEN Null
            ELSE IF kind = "success" /\ processed /\ obs.episodeFirst = Null
                 THEN clock ELSE obs.episodeFirst,
         graceUsed |->
            IF reset \/ abandoned THEN FALSE
            ELSE IF kind = "missed" /\ processed /\ detectionPhase = "holding"
                 THEN TRUE ELSE obs.graceUsed,
         restarted |->
            IF reset THEN FALSE ELSE IF abandoned THEN TRUE ELSE obs.restarted,
         ex5 |->
            IF kind \in {"success", "missed"}
            THEN (IF matches THEN obs.ex5 + 1 ELSE ExOff)
            ELSE IF reset \/ (invoked /\ obs.ex5 # Len(Example5)) THEN ExOff
                 ELSE obs.ex5,
         episode |->
            IF reset THEN "none"
            ELSE IF entered THEN "ready0"
            ELSE IF invoked
                 THEN (CASE obs.episode = "ready0" -> "ready1"
                         [] obs.episode = "ready1" -> "ready2"
                         [] OTHER -> obs.episode)
                 ELSE obs.episode,
         lastSettle |->
            IF kind \in SettleKinds THEN kind
            ELSE IF invoked \/ kind = "retake" THEN "none"
                 ELSE obs.lastSettle,
         deadTap |-> kind = "tap" /\ InFlight = 0 /\ ~invoked,
         table |->
            IF reset THEN (IF nTakePhoto' + nCrop' = 0 THEN TableReset ELSE TableOff)
            ELSE IF invoked THEN TableOff
            ELSE IF kind \in {"success", "missed"}
                 THEN TableStep(obs.table, kind = "success", clock)
                 ELSE obs.table]

\* ------------------------------------------------------------ behaviour
CameraInit ==
    /\ clock = 0
    /\ mounted = TRUE
    /\ detectionPhase = "scanning"
    /\ statusMessage = MsgScanning
    /\ croppedImage = NoImage
    /\ isCameraActive = TRUE
    /\ cameraLayout = 0
    /\ isCapturing = FALSE
    /\ holdStartTime = Null
    /\ lastDetectionTime = Null
    /\ rendered = Snapshot(FALSE)
    /\ nTakePhoto = 0
    /\ nCrop = 0
    /\ retakeTimers = 0
    /\ captureOutcome = "none"
    /\ obs = [episodeFirst |-> Null, graceUsed |-> FALSE, restarted |-> FALSE,
              ex5 |-> 0, episode |-> "none", lastSettle |-> "none",
              deadTap |-> FALSE, table |-> TableReset]

Init == CameraInit /\ ScreenInit(NoScreen) /\ CropIdle /\ LatchInit

\* The component is mounted while the user presses its buttons, the frame
\* processor delivers detections and React renders it; promises and timers
\* run their callbacks whether it is mounted or not.
\* Date.now() advances between two tasks of the JS thread.
\* Date.now() advancing with a hold timer attached: the passage of time
\* alone completes a hold that has lasted HOLD_DURATION_MS.
AdvanceWithHoldTimer(steps, max) ==
    /\ \E d \in steps : clock + d <= max /\ clock' = clock + d
    /\ detectionPhase' =
           IF detectionPhase = "holding" /\ HoldElapsed(clock', holdStartTime)
           THEN "ready" ELSE detectionPhase
    /\ UNCHANGED <<statusMessage, croppedImage, isCameraActive, cameraLayout,
                   isCapturing, holdStartTime, lastDetectionTime, rendered,
                   nTakePhoto, nCrop, retakeTimers, captureOutcome>>
    /\ UNCHANGED <<obs, mounted, screenVars, cropVars, latchVars>>

Advance(steps, max) ==
    /\ \E d \in steps : clock + d <= max /\ clock' = clock + d
    /\ UNCHANGED <<codeVars, obs, mounted, screenVars, cropVars, latchVars>>

Tick == Advance(CoarseSteps, MaxTime)

FineTick == Advance(FineSteps, MaxFineTime)

\* The instants at which SpecEdge reads the clock: every sum of the two
\* durations, and the MaxSlack milliseconds before it.
EdgeInstants ==
    {t \in 0..(HOLD_DURATION_MS + DETECTION_GRACE_MS) :
        \E a \in 0..1, b \in 0..1, e \in 0..MaxSlack :
            t = a * HOLD_DURATION_MS + b * DETECTION_GRACE_MS - e}

\* Date.now() is later, at one of these instants, in the next task.
EdgeTick ==
    /\ \E t \in EdgeInstants : t > clock /\ clock' = t
    /\ UNCHANGED <<codeVars, obs, mounted, screenVars, cropVars, latchVars>>

\* Date.now() is the wall clock: it goes back when the system time is set
\* back between two tasks.
ClockSetBack ==
    /\ \E d \in CoarseSteps : clock - d >= 0 /\ clock' = clock - d
    /\ UNCHANGED <<codeVars, obs, mounted, screenVars, cropVars, latchVars>>

DetectionSuccess ==
    mounted /\ detectionSuccess /\ UNCHANGED <<clock, mounted, screenVars, cropVars, latchVars>>
        /\ Observe("success")

DetectionMissed ==
    mounted /\ detectionMissed /\ UNCHANGED <<clock, mounted, screenVars, cropVars, latchVars>>
        /\ Observe("missed")

Render ==
    mounted /\ render /\ UNCHANGED <<clock, mounted, screenVars, cropVars, latchVars>>
        /\ Observe("render")

ManualTap ==
    mounted /\ manualPress /\ UNCHANGED <<clock, mounted, screenVars, cropVars, latchVars>>
        /\ Observe("tap")

Retake ==
    mounted /\ retakePress /\ UNCHANGED <<clock, mounted, screenVars, cropVars, latchVars>>
        /\ Observe("retake")

RetakeTimerFires == retakeTimerFires /\ UNCHANGED <<clock, mounted, screenVars, cropVars, latchVars>> /\ Observe("timer")

CameraLayoutChanges ==
    /\ mounted
    /\ \E l \in 1..NumLayouts : onCameraLayout(l)
    /\ UNCHANGED <<clock, mounted, screenVars, cropVars, latchVars>>
    /\ Observe("layout")

TakePhotoResolves == takePhotoResolves /\ UNCHANGED <<clock, mounted, screenVars, cropVars, latchVars>> /\ Observe("takePhotoOk")

TakePhotoRejects == takePhotoRejects /\ UNCHANGED <<clock, mounted, screenVars, cropVars, latchVars>> /\ Observe("takePhotoFailed")

CropResolves == cropResolves /\ UNCHANGED <<clock, mounted, screenVars, cropVars, latchVars>> /\ Observe("settleOk")

CropRejects == cropRejects /\ UNCHANGED <<clock, mounted, screenVars, cropVars, latchVars>> /\ Observe("cropFailed")

Next ==
    \/ Tick
    \/ DetectionSuccess
    \/ DetectionMissed
    \/ Render
    \/ ManualTap
    \/ Retake
    \/ RetakeTimerFires
    \/ CameraLayoutChanges
    \/ TakePhotoResolves
    \/ TakePhotoRejects
    \/ CropResolves
    \/ CropRejects

Spec == Init /\ [][Next]_vars

\* The same program with the clock on a 100 ms grid and a camera layout
\* that is not delivered again: the runs in which the hold and grace
\* thresholds are met and missed by one grid step.
NextHold ==
    \/ FineTick
    \/ ManualTap
    \/ DetectionSuccess
    \/ DetectionMissed
    \/ Render
    \/ Retake
    \/ RetakeTimerFires
    \/ TakePhotoResolves
    \/ TakePhotoRejects
    \/ CropResolves
    \/ CropRejects

SpecHold == Init /\ [][NextHold]_vars

\* The same program with the clock read at the thresholds and one
\* millisecond before them.
NextEdge ==
    \/ EdgeTick
    \/ DetectionSuccess
    \/ DetectionMissed
    \/ Render
    \/ ManualTap
    \/ Retake
    \/ RetakeTimerFires
    \/ TakePhotoResolves
    \/ TakePhotoRejects
    \/ CropResolves
    \/ CropRejects

SpecEdge == Init /\ [][NextEdge]_vars

\* The same program under a wall clock that can also be set back.
NextSkew ==
    \/ Tick
    \/ ClockSetBack
    \/ DetectionSuccess
    \/ DetectionMissed
    \/ Render
    \/ ManualTap
    \/ Retake
    \/ RetakeTimerFires
    \/ TakePhotoResolves
    \/ TakePhotoRejects
    \/ CropResolves
    \/ CropRejects

SpecSkew == Init /\ [][NextSkew]_vars

\* The screen is left: React unmounts the component.  The component has no
\* effect cleanup, so nothing else happens at this step.
Unmount ==
    /\ mounted
    /\ mounted' = FALSE
    /\ UNCHANGED <<clock, codeVars, obs, screenVars, cropVars, latchVars>>

\* The same program with the unmount.
NextUnmount ==
    \/ Tick
    \/ Unmount
    \/ DetectionSuccess
    \/ DetectionMissed
    \/ Render
    \/ ManualTap
    \/ Retake
    \/ RetakeTimerFires
    \/ CameraLayoutChanges
    \/ TakePhotoResolves
    \/ TakePhotoRejects
    \/ CropResolves
    \/ CropRejects

SpecUnmount == Init /\ [][NextUnmount]_vars

\* VisionCropCamera with its clock, its observers and its lifecycle
cameraVars == <<clock, codeVars, obs, mounted>>

CapturePress == capturePress /\ UNCHANGED <<cameraVars, cropVars, latchVars>>

PhotoResolves == photoResolves /\ UNCHANGED <<cameraVars, cropVars, latchVars>>

PhotoRejects == photoRejects /\ UNCHANGED <<cameraVars, cropVars, latchVars>>

CropSucceeds == cropSucceeds /\ UNCHANGED <<cameraVars, cropVars, latchVars>>

CropFails == cropFails /\ UNCHANGED <<cameraVars, cropVars, latchVars>>

ScreenRender == screenRender /\ UNCHANGED <<cameraVars, cropVars, latchVars>>

CaptureAgain == captureAgain /\ UNCHANGED <<cameraVars, cropVars, latchVars>>

\* One of the button screens is mounted and VisionCropCamera is left alone.
InitScreens ==
    /\ CameraInit
    /\ \E h \in Handlers : ScreenInit(h)
    /\ CropIdle
    /\ LatchInit

NextScreens ==
    \/ CapturePress
    \/ PhotoResolves
    \/ PhotoRejects
    \/ CropSucceeds
    \/ CropFails
    \/ ScreenRender
    \/ CaptureAgain

SpecScreens == InitScreens /\ [][NextScreens]_vars

\* the other parts of the module, which a run of the latch variant leaves
\* alone
notLatchVars == <<cameraVars, screenVars, cropVars>>

TextDetected ==
    textDetectedEvent /\ ObserveLatch("detected") /\ UNCHANGED notLatchVars

RenderLatch == renderLatch /\ ObserveLatch("render") /\ UNCHANGED notLatchVars

ManualTapLatch ==
    manualPressLatch /\ ObserveLatch("tap") /\ UNCHANGED notLatchVars

RetakeLatch ==
    retakePressLatch /\ ObserveLatch("retake") /\ UNCHANGED notLatchVars

RetakeTimerFiresLatch ==
    retakeTimerFiresLatch /\ ObserveLatch("timer") /\ UNCHANGED notLatchVars

CameraLayoutChangesLatch ==
    /\ \E l \in 1..NumLayouts : onCameraLayoutLatch(l)
    /\ ObserveLatch("layout")
    /\ UNCHANGED notLatchVars

TakePhotoResolvesLatch ==
    takePhotoResolvesLatch /\ ObserveLatch("takePhotoOk")
        /\ UNCHANGED notLatchVars

TakePhotoRejectsLatch ==
    takePhotoRejectsLatch /\ ObserveLatch("takePhotoFailed")
        /\ UNCHANGED notLatchVars

CropResolvesLatch ==
    cropResolvesLatch /\ ObserveLatch("settleOk") /\ UNCHANGED notLatchVars

CropRejectsLatch ==
    cropRejectsLatch /\ ObserveLatch("cropFailed") /\ UNCHANGED notLatchVars

\* A run of the latch variant of VisionCropCamera.
NextLatch ==
    \/ TextDetected
    \/ RenderLatch
    \/ ManualTapLatch
    \/ RetakeLatch
    \/ RetakeTimerFiresLatch
    \/ CameraLayoutChangesLatch
    \/ TakePhotoResolvesLatch
    \/ TakePhotoRejectsLatch
    \/ CropResolvesLatch
    \/ CropRejectsLatch

SpecLatch == Init /\ [][NextLatch]_vars

GrabImage ==
    apply("grabImage", grabImage(arg)) /\ UNCHANGED <<cameraVars, screenVars, latchVars>>

CapturePhotoCrop ==
    apply("capturePhoto", capturePhotoCrop(arg))
        /\ UNCHANGED <<cameraVars, screenVars, latchVars>>

CalculateCropRegion ==
    apply("calculateCropRegion", calculateCropRegion(arg))
        /\ UNCHANGED <<cameraVars, screenVars, latchVars>>

TakeAndCropPhotoCrop ==
    apply("takeAndCropPhoto", takeAndCropPhotoCrop(arg))
        /\ UNCHANGED <<cameraVars, screenVars, latchVars>>

EffectiveDimensions ==
    apply("effectiveDimensions", effectiveDimensions(arg))
        /\ UNCHANGED <<cameraVars, screenVars, latchVars>>

EffectiveDimensionsLatch ==
    apply("effectiveDimensionsLatch", effectiveDimensionsLatch(arg))
        /\ UNCHANGED <<cameraVars, screenVars, latchVars>>

RectMemo ==
    apply("rect", rect(arg)) /\ UNCHANGED <<cameraVars, screenVars, latchVars>>

\* One crop computation on arguments drawn by DrawCropArg.
InitCrop ==
    /\ CameraInit
    /\ ScreenInit(NoScreen)
    /\ DrawCropArg
    /\ computed = NoCrop
    /\ LatchInit

NextCrop ==
    \/ GrabImage
    \/ CapturePhotoCrop
    \/ CalculateCropRegion
    \/ TakeAndCropPhotoCrop
    \/ EffectiveDimensions
    \/ EffectiveDimensionsLatch
    \/ RectMemo

SpecCrop == InitCrop /\ [][NextCrop]_vars

TypeOK ==
    /\ clock \in 0..(MaxTime + MaxFineTime)
    /\ detectionPhase \in Phases
    /\ statusMessage \in {MsgScanning, MsgHold, MsgCapturing}
    /\ croppedImage \in {NoImage, Uri}
    /\ isCameraActive \in BOOLEAN
    /\ cameraLayout \in 0..NumLayouts
    /\ isCapturing \in BOOLEAN
    /\ holdStartTime \in {Null} \cup 0..(MaxTime + MaxFineTime)
    /\ lastDetectionTime \in {Null} \cup 0..(MaxTime + MaxFineTime)
    /\ nTakePhoto \in 0..MaxInFlight
    /\ nCrop \in 0..MaxInFlight
    /\ retakeTimers \in 0..MaxTimers
    /\ captureOutcome \in {"none", "fulfilled", "rejected"}
    /\ mounted \in BOOLEAN
    /\ screen \in Handlers \cup {NoScreen}
    /\ screenState.isCapturing \in BOOLEAN
    /\ screenState.image \in {NoImage, Uri}
    /\ awaiting.photo \in 0..MaxInFlight
    /\ awaiting.crop \in 0..MaxInFlight
    /\ latch.textDetected \in BOOLEAN
    /\ latch.detectionTriggered \in BOOLEAN
    /\ latch.isCapturing \in BOOLEAN
    /\ latch.croppedImage \in {NoImage, Uri}
    /\ latch.statusMessage \in {MsgScanning, MsgDetected, MsgCapturing}
    /\ latchAwaiting.photo \in 0..MaxInFlight
    /\ latchAwaiting.crop \in 0..MaxInFlight
    /\ latchAwaiting.timers \in 0..MaxTimers

\* ------------------------------------------------------------ claims
Reset == TakePhotoRejects \/ CropResolves \/ CropRejects \/ Retake

DetectionEvent == DetectionSuccess \/ DetectionMissed

\* C1: once detectionPhase is 'ready' it stays 'ready' under every detection
\* event; only a reset (finally of takeAndCropPhoto, Retake) leaves 'ready'.
C1_ReadySticky ==
    [][/\ (DetectionEvent /\ detectionPhase = "ready" => detectionPhase' = "ready")
       /\ (detectionPhase = "ready" /\ detectionPhase' # "ready" => Reset)]_vars

\* C2: the phase becomes 'ready' only at an onDetectionSuccess at least
\* HOLD_DURATION_MS after holdStartTime, which is the timestamp of the first
\* success of the current hold; a shorter span of successes never gives 'ready'.
C2_ReadyNeedsFullHold ==
    [][detectionPhase # "ready" /\ detectionPhase' = "ready" =>
          /\ DetectionSuccess
          /\ holdStartTime # Null
          /\ holdStartTime = obs.episodeFirst
          /\ clock - holdStartTime >= HOLD_DURATION_MS
          /\ lastDetectionTime' - obs'.episodeFirst >= HOLD_DURATION_MS]_vars

C2_Witness ==
    /\ detectionPhase = "ready"
    /\ holdStartTime = obs.episodeFirst
    /\ lastDetectionTime = holdStartTime + HOLD_DURATION_MS

\* C3: a missed event less than DETECTION_GRACE_MS after the last success
\* leaves holdStartTime and the phase 'holding' unchanged, and a later success
\* at holdStartTime + HOLD_DURATION_MS or later then reaches 'ready' on the
\* same, unrestarted hold.
C3_GraceKeepsHold ==
    [][/\ (/\ DetectionMissed
           /\ ~isCapturing
           /\ detectionPhase = "holding"
           /\ clock - lastDetectionTime < DETECTION_GRACE_MS
           => /\ holdStartTime' = holdStartTime
              /\ detectionPhase' = "holding")
       /\ (/\ DetectionSuccess
           /\ ~isCapturing
           /\ obs.graceUsed
           /\ holdStartTime # Null
           /\ clock >= holdStartTime + HOLD_DURATION_MS
           => /\ detectionPhase' = "ready"
              /\ holdStartTime' = obs.episodeFirst)]_vars

C3_Witness ==
    /\ detectionPhase = "ready"
    /\ obs.graceUsed
    /\ holdStartTime = obs.episodeFirst

\* C4: a missed event DETECTION_GRACE_MS or more after the last success puts
\* the phase back to 'scanning' and clears both timers; the next success
\* starts a new hold at its own timestamp, and 'ready' then needs a full
\* HOLD_DURATION_MS from that new start.
C4_AbandonRestartsHold ==
    [][/\ (/\ DetectionMissed
           /\ ~isCapturing
           /\ detectionPhase = "holding"
           /\ clock - lastDetectionTime >= DETECTION_GRACE_MS
           => /\ detectionPhase' = "scanning"
              /\ holdStartTime' = Null
              /\ lastDetectionTime' = Null)
       /\ (/\ DetectionSuccess
           /\ ~isCapturing
           /\ obs.restarted
           /\ obs.episodeFirst = Null
           => /\ holdStartTime' = clock
              /\ detectionPhase' = "holding")
       /\ (/\ obs.restarted
           /\ detectionPhase # "ready"
           /\ detectionPhase' = "ready"
           => /\ holdStartTime' = obs.episodeFirst
              /\ clock - obs.episodeFirst >= HOLD_DURATION_MS)]_vars

C4_Witness ==
    /\ detectionPhase = "ready"
    /\ obs.restarted
    /\ holdStartTime = obs.episodeFirst
    /\ holdStartTime > 0

\* C5: success@0, success@500, missed@600, success@700, success@1200 from
\* 'scanning' gives 'holding' after each of the first four events and 'ready'
\* at the fifth.
C5_Example ==
    /\ (obs.ex5 \in 1..(Len(Example5) - 1) => detectionPhase = "holding")
    /\ (obs.ex5 = Len(Example5) => detectionPhase = "ready")

C5_Witness ==
    /\ obs.ex5 = Len(Example5)
    /\ clock = Example5[Len(Example5)][2]
    /\ detectionPhase = "ready"

Settle == TakePhotoRejects \/ CropResolves \/ CropRejects

\* C6: between the phase entering 'ready' and the next reset takePhoto is
\* invoked at most once, and while isCapturing is true the detection handlers
\* change neither the phase nor the timers.
C6_OneCapturePerReady ==
    /\ [](obs.episode # "ready2" /\ InFlight <= 1)
    /\ [][DetectionEvent /\ isCapturing =>
            UNCHANGED <<detectionPhase, holdStartTime, lastDetectionTime>>]_vars

C6_Witness ==
    /\ obs.episode = "ready1"
    /\ detectionPhase = "ready"
    /\ isCapturing
    /\ nTakePhoto = 1

\* C7: when a capture settles, by success or by a throw of takePhoto or of
\* the crop, isCapturing is cleared and the state machine is reset in the
\* same step, so every later detection event sees the reset state.
C7_SettleResets ==
    /\ [](InFlight = 0 => ~isCapturing)
    /\ [][Settle =>
            /\ isCapturing' = FALSE
            /\ detectionPhase' = "scanning"
            /\ holdStartTime' = Null
            /\ lastDetectionTime' = Null]_vars

C7_Witness ==
    /\ obs.lastSettle = "cropFailed"
    /\ obs.episode = "none"
    /\ ~isCapturing
    /\ detectionPhase = "scanning"
    /\ rendered.detectionPhase = "ready"

\* C8: a failure of takePhoto or of the crop is reported to the caller: the
\* promise of takeAndCropPhoto rejects or the screen shows an error.
C8_FailureReported ==
    obs.lastSettle \in FailKinds =>
        \/ captureOutcome = "rejected"
        \/ statusMessage \notin {MsgScanning, MsgHold, MsgCapturing}

\* C9: a failed capture is not retried automatically: the failure leaves the
\* phase 'scanning' and starts no capture, and the next takePhoto comes from
\* a manual tap or from the effect after a new hold of at least
\* HOLD_DURATION_MS whose first success came after the reset.
C9_NoAutoRetry ==
    [][/\ (TakePhotoRejects \/ CropRejects =>
              detectionPhase' = "scanning" /\ InFlight' < InFlight)
       /\ (obs.lastSettle \in FailKinds /\ nTakePhoto' > nTakePhoto =>
              \/ ManualTap
              \/ /\ Render
                 /\ obs.episodeFirst # Null
                 /\ holdStartTime = obs.episodeFirst
                 /\ lastDetectionTime - obs.episodeFirst >= HOLD_DURATION_MS)]_vars

C9_Witness ==
    /\ obs.lastSettle \in FailKinds
    /\ detectionPhase = "ready"
    /\ rendered.detectionPhase = "scanning"
    /\ lastDetectionTime - obs.episodeFirst >= HOLD_DURATION_MS
    /\ InFlight = 0

\* C10: a manual tap starts a capture exactly when no capture is in flight,
\* in every phase, and is a no-op otherwise; at most one takePhoto is in
\* flight; the settling of the capture resets the state machine.
C10_ManualTap ==
    /\ [](InFlight <= 1 /\ ~obs.deadTap)
    /\ [][/\ (ManualTap /\ InFlight > 0 => UNCHANGED codeVars)
          /\ (ManualTap /\ InFlight = 0 => nTakePhoto' = 1)
          /\ (Settle => detectionPhase' = "scanning")]_vars

\* C11: on the screens that guard the capture with the React state
\* isCapturing, a second tap while a capture is in flight starts no second
\* capture, also when the tap is handled before the re-render.
C11_StateGuardOneCapture ==
    screen \in GuardedHandlers => ScreenInFlight <= 1

\* C12: GeminiCropCamera.takeAndCropPhoto and CameraOverlayCrop.grabImage
\* are not re-entered: at most one capture is in flight on these screens.
C12_NoReentrantCapture ==
    screen \in UnguardedHandlers => ScreenInFlight <= 1

\* the preview was measured when the crop was computed
Measured == arg.previewW > 0 /\ arg.previewH > 0

\* CropRegion invariant on a crop whose fields are numerators over c.den
InsidePhoto(c) ==
    /\ c.finite
    /\ 0 <= c.originX
    /\ 0 <= c.originY
    /\ c.originX + c.width <= c.den * arg.photoW
    /\ c.originY + c.height <= c.den * arg.photoH
    /\ c.width >= c.den
    /\ c.height >= c.den

IntegerFields(c) ==
    /\ c.finite
    /\ c.originX % c.den = 0
    /\ c.originY % c.den = 0
    /\ c.width % c.den = 0
    /\ c.height % c.den = 0

\* C13: for every photo with positive dimensions, every measured preview,
\* every normalized rectangle with x1 <= x2, y1 <= y2 and both resize modes,
\* the crop of grabImage (and of NewIDScanner.capturePhoto) lies inside the
\* photo and is at least one pixel wide and high.
C13_CropInsidePhoto ==
    computed.fn \in {"grabImage", "capturePhoto"} /\ Measured =>
        InsidePhoto(computed)

\* C14: for positive photo and preview dimensions and every frame inside the
\* preview, the crop of calculateCropRegion (and of the inline computation
\* of takeAndCropPhoto) has integer fields, lies inside the photo and is at
\* least one pixel wide and high.
C14_IntegerCropInsidePhoto ==
    /\ computed.fn \in {"calculateCropRegion", "takeAndCropPhoto"}
    /\ Measured
    /\ arg.x1 < arg.x2 /\ arg.x2 <= arg.previewW
    /\ arg.y1 < arg.y2 /\ arg.y2 <= arg.previewH
    => IntegerFields(computed) /\ InsidePhoto(computed)

FullRectExample ==
    /\ arg.fn = "grabImage"
    /\ <<arg.photoW, arg.photoH>> = ExamplePhoto
    /\ <<arg.previewW, arg.previewH>> = ExamplePreview
    /\ <<arg.x1, arg.y1, arg.x2, arg.y2>> = <<0, 0, RectDen, RectDen>>
    /\ arg.mode = "contain"

\* C16: a 1600x1200 photo, a 400x300 preview, the rectangle (0, 0, 1, 1) and
\* contain mode give the crop originX 0, originY 0, width 1600, height 1200.
C16_FullRectExample ==
    FullRectExample /\ computed.fn = "grabImage" =>
        <<computed.originX, computed.originY>> = <<0, 0>>
        /\ <<computed.width, computed.height>> = ExamplePhoto

C16_Witness ==
    /\ FullRectExample
    /\ computed.fn = "grabImage"
    /\ computed.width = ExamplePhoto[1]

\* C17: the effective photo dimensions are the raw ones swapped exactly when
\* the orientation is landscape-left or landscape-right, on iOS and on
\* Android, whatever the camera layout.
C17_SwapByRotation ==
    computed.fn \in {"effectiveDimensions", "effectiveDimensionsLatch"} =>
        <<computed.imageWidth, computed.imageHeight>> =
            IF Landscape(arg.orientation)
            THEN <<arg.photoH, arg.photoW>>
            ELSE <<arg.photoW, arg.photoH>>

\* C18: with an unmeasured preview (width or height 0) the crop is the full
\* photo frame.
C18_UnmeasuredFallsBack ==
    /\ computed.fn \in {"grabImage", "capturePhoto", "takeAndCropPhoto"}
    /\ ~Measured
    => /\ computed.finite
       /\ <<computed.originX, computed.originY>> = <<0, 0>>
       /\ <<computed.width, computed.height>> = <<arg.photoW, arg.photoH>>

\* the latest timestamp the handlers have stored
LatestSeen == Max(holdStartTime, lastDetectionTime)

\* a detection event that the handlers process during a hold
ProcessedInHold(event) == event /\ ~isCapturing /\ holdStartTime # Null

\* C19: a detection event with a timestamp earlier than holdStartTime or
\* lastDetectionTime is handled with zero elapsed time: the elapsed values
\* compared with HOLD_DURATION_MS and DETECTION_GRACE_MS are never negative,
\* and the phase and the timers after the event are those the event gives
\* with the latest stored timestamp as its own.
C19_OutOfOrderClamped ==
    [][/\ (ProcessedInHold(DetectionSuccess) => clock - holdStartTime >= 0)
       /\ (ProcessedInHold(DetectionMissed) => clock - LastDetectionOrZero >= 0)
       /\ (ProcessedInHold(DetectionSuccess) /\ clock < LatestSeen =>
              /\ lastDetectionTime' = LatestSeen
              /\ holdStartTime' = holdStartTime
              /\ detectionPhase' =
                    IF HoldElapsed(LatestSeen, holdStartTime)
                    THEN "ready" ELSE detectionPhase)
       /\ (ProcessedInHold(DetectionMissed) /\ clock < LatestSeen =>
              IF GraceElapsed(LatestSeen, LastDetectionOrZero)
              THEN /\ detectionPhase' = "scanning"
                   /\ holdStartTime' = Null
                   /\ lastDetectionTime' = Null
              ELSE UNCHANGED <<detectionPhase, holdStartTime,
                               lastDetectionTime>>)]_vars

\* C20: after VisionCropCamera is unmounted nothing it scheduled earlier
\* fires: a capture in flight does not run the reset when it settles
\* (setDetectionPhase, the timers, setCroppedImage), the Retake timer does
\* not set isCameraActive, and no capture is started.
C20_NothingFiresAfterUnmount ==
    [][~mounted =>
          /\ UNCHANGED <<detectionPhase, holdStartTime, lastDetectionTime,
                         croppedImage, isCameraActive>>
          /\ nTakePhoto' <= nTakePhoto]_vars

\* the debounce state: the phase and the two timestamps
debounceState == <<detectionPhase, holdStartTime, lastDetectionTime>>

\* C21: the debounce state is purely reactive: detectionPhase, holdStartTime
\* and lastDetectionTime change only in a detection event handler, when a
\* capture settles or on Retake; the passage of time alone changes none of
\* them (a hold is neither abandoned nor completed by a timer).
C21_PurelyReactive ==
    [][/\ (debounceState' # debounceState => DetectionEvent \/ Reset)
       /\ (clock' # clock => debounceState' = debounceState)]_vars

\* a hold that has outlasted both durations without any event: still holding
C21_Witness ==
    /\ detectionPhase = "holding"
    /\ clock - holdStartTime >= HOLD_DURATION_MS + DETECTION_GRACE_MS
    /\ clock - lastDetectionTime >= HOLD_DURATION_MS + DETECTION_GRACE_MS

\* n / d is the smaller (the larger) of sw / vw and sh / vh
IsMinRatio(n, d, sw, sh, vw, vh) ==
    IF sw * vh <= sh * vw THEN n * vw = d * sw ELSE n * vh = d * sh

IsMaxRatio(n, d, sw, sh, vw, vh) ==
    IF sw * vh >= sh * vw THEN n * vw = d * sw ELSE n * vh = d * sh

\* the preview dimensions the computation under study uses
UsedPreviewW == OrElse(arg.previewW, arg.photoW)

UsedPreviewH == OrElse(arg.previewH, arg.photoH)

ScaledFunctions == {"grabImage", "calculateCropRegion"}

\* C22: the factor that takes a preview coordinate to a photo coordinate is
\* max(sw/vw, sh/vh) in cover mode and min(sw/vw, sh/vh) in contain mode,
\* for calculateCropRegion (cover) and grabImage (both modes, factor 1/scale).
C22_FactorMaxInCover ==
    computed.fn \in ScaledFunctions =>
        IF arg.mode = "cover"
        THEN IsMaxRatio(computed.factorNum, computed.factorDen,
                        arg.photoW, arg.photoH, UsedPreviewW, UsedPreviewH)
        ELSE IsMinRatio(computed.factorNum, computed.factorDen,
                        arg.photoW, arg.photoH, UsedPreviewW, UsedPreviewH)

\* C22 as amended: the factor is min(sw/vw, sh/vh) in cover mode and
\* max(sw/vw, sh/vh) in contain mode.
C22_FactorMinInCover ==
    computed.fn \in ScaledFunctions =>
        IF arg.mode = "cover"
        THEN IsMinRatio(computed.factorNum, computed.factorDen,
                        arg.photoW, arg.photoH, UsedPreviewW, UsedPreviewH)
        ELSE IsMaxRatio(computed.factorNum, computed.factorDen,
                        arg.photoW, arg.photoH, UsedPreviewW, UsedPreviewH)

\* grabImage in cover mode on a measured preview narrower than the photo
C22_Witness ==
    /\ computed.fn = "grabImage"
    /\ arg.mode = "cover"
    /\ arg.previewW > 0 /\ arg.previewH > 0
    /\ arg.photoW * arg.previewH > arg.photoH * arg.previewW

\* a detection handler that gets past its early returns
SuccessProcessed == DetectionSuccess /\ ~isCapturing /\ holdStartTime # Null

MissedProcessed == DetectionMissed /\ ~isCapturing /\ holdStartTime # Null

\* C23: both duration comparisons are inclusive: a success exactly
\* HOLD_DURATION_MS after holdStartTime makes the phase 'ready', a missed
\* event exactly DETECTION_GRACE_MS after the last success makes it
\* 'scanning'; one millisecond less leaves the phase 'holding' in both cases.
C23_InclusiveThresholds ==
    [][/\ (SuccessProcessed /\ clock - holdStartTime = HOLD_DURATION_MS
              => detectionPhase' = "ready")
       /\ (SuccessProcessed /\ detectionPhase = "holding"
              /\ clock - holdStartTime = HOLD_DURATION_MS - 1
              => detectionPhase' = "holding")
       /\ (MissedProcessed /\ clock - lastDetectionTime = DETECTION_GRACE_MS
              => detectionPhase' = "scanning")
       /\ (MissedProcessed /\ detectionPhase = "holding"
              /\ clock - lastDetectionTime = DETECTION_GRACE_MS - 1
              => detectionPhase' = "holding")]_vars

\* the success that came exactly HOLD_DURATION_MS after the start of a hold
\* which had tolerated a missed event one millisecond before the grace ended
C23_Witness ==
    /\ detectionPhase = "ready"
    /\ clock - holdStartTime = HOLD_DURATION_MS
    /\ lastDetectionTime = clock
    /\ obs.graceUsed

\* C24: on detection events with non-decreasing timestamps and no capture in
\* flight, the phase of VisionCropCamera after each event is the phase the
\* transition table (rows Scanning and Holding) gives on the same events
\* with the same durations, up to and including the first entry into Ready.
C24_FollowsTable == obs.table.phase # "off" => detectionPhase = obs.table.phase

\* the table and the component have entered Ready together, after a missed
\* event was tolerated and after an earlier hold was abandoned
C24_Witness ==
    /\ obs.table.phase = "ready"
    /\ detectionPhase = "ready"
    /\ obs.graceUsed
    /\ obs.restarted

\* C25: the status text corresponds to the phase: whenever detectionPhase is
\* 'scanning' and no capture is in flight, statusMessage is
\* 'Scanning for ID...', also after a capture that failed.
C25_StatusMatchesPhase ==
    detectionPhase = "scanning" /\ InFlight = 0 /\ ~isCapturing
        => statusMessage = MsgScanning

\* C26: every entry into 'ready' with no capture in flight and no cropped
\* image under review is followed by a takePhoto invocation before the phase
\* leaves 'ready': the phase never leaves 'ready' without a capture having
\* been attempted since it was entered.
C26_ReadyLeadsToCapture ==
    [][/\ detectionPhase = "ready"
       /\ obs.episode = "ready0"
       /\ croppedImage = NoImage
       /\ InFlight = 0
       => detectionPhase' = "ready"]_vars

\* C27: detectionPhase is 'scanning' exactly when holdStartTime is null,
\* holdStartTime is null exactly when lastDetectionTime is null, and with
\* non-decreasing timestamps lastDetectionTime is never earlier than
\* holdStartTime.
C27_PhaseAndTimers ==
    /\ (detectionPhase = "scanning" <=> holdStartTime = Null)
    /\ (holdStartTime = Null <=> lastDetectionTime = Null)
    /\ (holdStartTime # Null => lastDetectionTime >= holdStartTime)

\* a hold that started after the first second, with a later success in it
C27_Witness ==
    /\ detectionPhase = "holding"
    /\ lastDetectionTime > holdStartTime
    /\ holdStartTime >= HOLD_DURATION_MS

LatchSettles == TakePhotoRejectsLatch \/ CropResolvesLatch \/ CropRejectsLatch

\* C28: in the latch variant, once onTextDetected has set the latch, further
\* positive detections are no-ops until the latch is cleared, which only a
\* capture settling or Retake does; each setting of the latch leads to at
\* most one automatic takePhoto invocation; the latch is cleared whenever a
\* capture settles, whether it succeeded or failed.
C28_LatchOnce ==
    /\ [](latchObs.auto <= 1)
    /\ [][/\ (TextDetected /\ latch.detectionTriggered
                => latch' = latch /\ latchAwaiting' = latchAwaiting)
           /\ (latch.detectionTriggered /\ ~latch'.detectionTriggered
                => LatchSettles \/ RetakeLatch)
           /\ (LatchSettles => ~latch'.detectionTriggered)]_vars

\* a failed automatic capture has settled and cleared the latch, and the
\* latch was set again by the next positive detection
C28_Witness ==
    /\ latch.detectionTriggered
    /\ latchObs.auto = 0
    /\ latch.statusMessage = MsgDetected
    /\ latchRendered.textDetected
    /\ LatchInFlight = 0

\* C29: whenever a cropped image is under review (croppedImage non-null),
\* isCameraActive is false; the reactivation timer started by Retake never
\* sets isCameraActive to true after a later capture has put a new cropped
\* image under review.
C29_ReviewKeepsCameraInactive == croppedImage # NoImage => ~isCameraActive

\* 0 <= x1 <= x2 <= 1 and 0 <= y1 <= y2 <= 1, in units of 1 / RectDen
Normalized(r) ==
    /\ 0 <= r.x1 /\ r.x1 <= r.x2 /\ r.x2 <= RectDen
    /\ 0 <= r.y1 /\ r.y1 <= r.y2 /\ r.y2 <= RectDen

SameRect(r, q) == r.x1 = q.x1 /\ r.y1 = q.y1 /\ r.x2 = q.x2 /\ r.y2 = q.y2

\* C30: for every rectPercentage, also with coordinates outside [0,1] and
\* with the corners in reverse order, the rectangle used for the overlay and
\* the crop satisfies 0 <= x1 <= x2 <= 1 and 0 <= y1 <= y2 <= 1, and an
\* already normalized rectangle is returned unchanged.
C30_RectNormalized ==
    computed.fn = "rect" =>
        /\ Normalized(computed)
        /\ (Normalized(arg) => SameRect(computed, arg))
        /\ SameRect(rect(computed), computed)

\* corners given in reverse order on both axes, one of them below 0 and one
\* above 1
C30_Witness ==
    /\ computed.fn = "rect"
    /\ arg.x1 > RectDen /\ arg.x2 < 0
    /\ arg.y1 > arg.y2 /\ arg.y2 > 0

====
